---- MODULE Spec2Model ----
(***************************************************************************)
(* Model of the two-agent QA pipeline (best_program.py) and of the         *)
(* evaluator that scores a candidate program (multi_agent_evaluator.py).   *)
(*                                                                         *)
(* Strings are sequences of characters.  A character is a one-character    *)
(* TLA+ string, except the two code points that have no ASCII spelling:    *)
(*   "U+0130"  LATIN CAPITAL LETTER I WITH DOT ABOVE                       *)
(*   "U+0307"  COMBINING DOT ABOVE                                         *)
(* Floats are exact decimal-scaled fractions, see Norm.                     *)
(***************************************************************************)
EXTENDS Integers, Sequences, FiniteSets, TLC

\* ------------------------------------------------------------- bounds
MaxExamples == 2
MaxTextLen == 2

\* ------------------------------------------------- characters (str methods)
\* The alphabet is ASCII together with U+0130 and U+0307: the ASCII letters
\* and digits, the ASCII whitespace, and the remaining ASCII characters, which
\* are neither alphanumeric nor whitespace and their own lower case.
UpperLetters ==
    <<"A", "B", "C", "D", "E", "F", "G", "H", "I", "J", "K", "L", "M",
      "N", "O", "P", "Q", "R", "S", "T", "U", "V", "W", "X", "Y", "Z">>
LowerLetters ==
    <<"a", "b", "c", "d", "e", "f", "g", "h", "i", "j", "k", "l", "m",
      "n", "o", "p", "q", "r", "s", "t", "u", "v", "w", "x", "y", "z">>
Digits == <<"0", "1", "2", "3", "4", "5", "6", "7", "8", "9">>

Range(f) == {f[k] : k \in DOMAIN f}
IndexOf(f, x) == CHOOSE k \in DOMAIN f : f[k] = x

UpperChars == Range(UpperLetters) \cup {"U+0130"}
LowerChars == Range(LowerLetters)
DigitChars == Range(Digits)
\* str.isspace() within ASCII: space, \t, \n, \r, \f, the vertical tab
\* (0x0B) and the four separators 0x1C to 0x1F, the last five written raw
SpaceChars == {" ", "\n", "\t", "\r", "\f", "", "", "", "", ""}

\* str.isalnum() on one character
IsAlnum(ch) == ch \in UpperChars \cup LowerChars \cup DigitChars

\* str.isspace() on one character
IsSpace(ch) == ch \in SpaceChars

\* str.lower() on one character: a string, of two code points for U+0130
Lower(ch) ==
    CASE ch = "U+0130" -> <<"i", "U+0307">>
      [] ch \in Range(UpperLetters) -> <<LowerLetters[IndexOf(UpperLetters, ch)]>>
      [] OTHER -> <<ch>>

\* "".join(ch.lower() for ch in text if ch.isalnum() or ch.isspace())
RECURSIVE _normalize(_)
_normalize(text) ==
    IF text = <<>> THEN <<>>
    ELSE LET ch == Head(text)
         IN  (IF IsAlnum(ch) \/ IsSpace(ch) THEN Lower(ch) ELSE <<>>)
                 \o _normalize(Tail(text))

\* Python's  p in s  for strings
Contains(s, p) ==
    \E k \in 0..(Len(s) - Len(p)) : SubSeq(s, k + 1, k + Len(p)) = p

_is_correct(answer, expected_substring) ==
    LET norm_ans == _normalize(answer)
        norm_exp == _normalize(expected_substring)
    IN  Contains(norm_ans, norm_exp)

\* str.strip()
RECURSIVE LStrip(_)
LStrip(s) == IF s # <<>> /\ IsSpace(Head(s)) THEN LStrip(Tail(s)) ELSE s

RECURSIVE RStrip(_)
RStrip(s) ==
    IF s # <<>> /\ IsSpace(s[Len(s)]) THEN RStrip(SubSeq(s, 1, Len(s) - 1)) ELSE s

Strip(s) == RStrip(LStrip(s))

\* ------------------------------------------------------------- floats
\* A float is [num, den, exp], the number num/den * 10^exp, in the one form
\* with num/den in lowest terms, den prime to 10 and num no multiple of 10;
\* den = 0 marks inf (num = 1) and nan (num = 0).  No float here is negative.
RECURSIVE GCD(_, _)
GCD(a, b) == IF b = 0 THEN a ELSE GCD(b, a % b)

RECURSIVE Norm(_, _, _)
Norm(n, d, e) ==
    IF n = 0 THEN [num |-> 0, den |-> 1, exp |-> 0]
    ELSE IF GCD(n, d) # 1 THEN Norm(n \div GCD(n, d), d \div GCD(n, d), e)
    ELSE IF d % 2 = 0 THEN Norm(n * 5, d \div 2, e - 1)
    ELSE IF d % 5 = 0 THEN Norm(n * 2, d \div 5, e - 1)
    ELSE IF n % 10 = 0 THEN Norm(n \div 10, d, e + 1)
    ELSE [num |-> n, den |-> d, exp |-> e]

\* the float n / d
Rat(n, d) == Norm(n, d, 0)

Zero == Rat(0, 1)
Inf == [num |-> 1, den |-> 0, exp |-> 0]
NaN == [num |-> 0, den |-> 0, exp |-> 0]

\* dict.get(key, default)
Get(d, key, default) == IF key \in DOMAIN d THEN d[key] ELSE default

\* float(x) for the values a metrics entry can hold.  A value is [t, f, n, s]:
\* t the Python type, f the float, n the int (or bool as 0/1), s the text.
PyFloat(f) == [t |-> "float", f |-> f, n |-> 0, s |-> <<>>]
PyInt(n) == [t |-> "int", f |-> Zero, n |-> n, s |-> <<>>]
PyBool(b) == [t |-> "bool", f |-> Zero, n |-> IF b THEN 1 ELSE 0, s |-> <<>>]
PyStr(str) == [t |-> "str", f |-> Zero, n |-> 0, s |-> str]
PyNone == [t |-> "NoneType", f |-> Zero, n |-> 0, s |-> <<>>]

DigitVal(ch) == IndexOf(Digits, ch) - 1

RECURSIVE DigitsVal(_)
DigitsVal(ds) ==
    IF ds = <<>> THEN 0
    ELSE 10 * DigitsVal(SubSeq(ds, 1, Len(ds) - 1)) + DigitVal(ds[Len(ds)])

RECURSIVE Pow10(_)
Pow10(k) == IF k = 0 THEN 1 ELSE 10 * Pow10(k - 1)

RECURSIVE NumDigits(_)
NumDigits(n) == IF n < 10 THEN 1 ELSE 1 + NumDigits(n \div 10)

RECURSIVE LowerText(_)
LowerText(s) == IF s = <<>> THEN <<>> ELSE Lower(Head(s)) \o LowerText(Tail(s))

AllDigits(s) == \A k \in 1..Len(s) : s[k] \in DigitChars

\* The double a decimal m * 10^e comes to: inf from 1.7976931348623158e308 on.
Decimal(m, e) ==
    LET f == Norm(m, 1, e)
        top == NumDigits(f.num) + f.exp
    IN  IF top > 309 \/ (top = 309 /\ f.num * Pow10(9 - NumDigits(f.num)) > 179769313)
        THEN Inf
        ELSE f

\* The whitespace float() skips around a number: that of C's isspace, which
\* leaves out the separators 0x1C to 0x1F (the vertical tab is written raw).
FloatSpaceChars == {" ", "\n", "\t", "\r", "\f", ""}

RECURSIVE FloatLStrip(_)
FloatLStrip(s) ==
    IF s # <<>> /\ Head(s) \in FloatSpaceChars THEN FloatLStrip(Tail(s)) ELSE s

RECURSIVE FloatRStrip(_)
FloatRStrip(s) ==
    IF s # <<>> /\ s[Len(s)] \in FloatSpaceChars
    THEN FloatRStrip(SubSeq(s, 1, Len(s) - 1))
    ELSE s

\* float(str) for texts of letters, digits, "." and whitespace (no sign, no
\* underscore), numbers of up to 9 digits: surrounding whitespace is ignored;
\* nan, inf and infinity in any case; digits with at most one point, then
\* optionally e or E and digits.
FloatOfStr(str) ==
    LET body == FloatRStrip(FloatLStrip(str))
        word == LowerText(body)
        marks == {k \in 1..Len(body) : body[k] \in {"e", "E"}}
        cut == IF marks = {} THEN Len(body) + 1 ELSE CHOOSE k \in marks : TRUE
        mant == SubSeq(body, 1, cut - 1)
        expo == SubSeq(body, cut + 1, Len(body))
        dots == {k \in 1..Len(mant) : mant[k] = "."}
        digs == SelectSeq(mant, LAMBDA ch : ch \in DigitChars)
        wellFormed == /\ \A k \in 1..Len(mant) : mant[k] \in DigitChars \cup {"."}
                      /\ Cardinality(dots) <= 1
                      /\ digs # <<>>
                      /\ marks = {} \/ (expo # <<>> /\ AllDigits(expo))
        nfrac == IF dots = {} THEN 0 ELSE Len(mant) - (CHOOSE k \in dots : TRUE)
    IN  CASE word = <<"n", "a", "n">> ->
                [ok |-> TRUE, val |-> NaN, err |-> "none"]
          [] word \in {<<"i", "n", "f">>, <<"i", "n", "f", "i", "n", "i", "t", "y">>} ->
                [ok |-> TRUE, val |-> Inf, err |-> "none"]
          [] OTHER ->
                IF wellFormed
                THEN [ok |-> TRUE,
                      val |-> Decimal(DigitsVal(digs), DigitsVal(expo) - nfrac),
                      err |-> "none"]
                ELSE [ok |-> FALSE, val |-> Zero, err |-> "ValueError"]

\* variant: a value float() rejects counts as 0.0
ToFloatLenient(v) ==
    CASE v.t = "float" -> [ok |-> TRUE, val |-> v.f, err |-> "none"]
      [] v.t \in {"int", "bool"} -> [ok |-> TRUE, val |-> Rat(v.n, 1), err |-> "none"]
      [] v.t = "str" -> [ok |-> TRUE, val |-> FloatOfStr(v.s).val, err |-> "none"]
      [] OTHER -> [ok |-> TRUE, val |-> Zero, err |-> "none"]

\* float(v); an int here is small enough not to overflow a double
ToFloat(v) ==
    CASE v.t = "float" -> [ok |-> TRUE, val |-> v.f, err |-> "none"]
      [] v.t \in {"int", "bool"} -> [ok |-> TRUE, val |-> Rat(v.n, 1), err |-> "none"]
      [] v.t = "str" -> FloatOfStr(v.s)
      [] OTHER -> [ok |-> FALSE, val |-> Zero, err |-> "TypeError"]

\* ---------------------------------------------------- candidate programs
QuestionPrefix == <<"Q", "u", "e", "s", "t", "i", "o", "n", ":", " ">>
PlanPrefix == <<"\n", "P", "l", "a", "n", ":", " ">>

\* The configuration of the reference candidate, and variants of it that an
\* optimizer may write: planner off, keys left to their defaults.
AGENT_CONFIG ==
    [use_planner |-> TRUE,
     planner |-> [system_prompt |-> "planner_prompt", max_tokens |-> 128],
     solver |-> [system_prompt |-> "solver_prompt", max_tokens |-> 32]]

ConfigPlannerOff ==
    [use_planner |-> FALSE,
     planner |-> [system_prompt |-> "planner_prompt", max_tokens |-> 128],
     solver |-> [system_prompt |-> "solver_prompt", max_tokens |-> 32]]

ConfigNoPlannerKey ==
    [planner |-> [system_prompt |-> "other_planner_prompt", max_tokens |-> 16],
     solver |-> [system_prompt |-> "solver_prompt", max_tokens |-> 32]]

ConfigDefaultBudgets ==
    [use_planner |-> TRUE,
     planner |-> [system_prompt |-> "planner_prompt"],
     solver |-> [system_prompt |-> "solver_prompt"]]

Configs == {AGENT_CONFIG, ConfigPlannerOff, ConfigNoPlannerKey, ConfigDefaultBudgets}

\* Eval examples: the second one's expected substring normalizes to the empty
\* string, which every answer contains.
ExamplePool ==
    {[question |-> <<"x", "?">>, expected_substring |-> <<"a">>],
     [question |-> <<"y">>, expected_substring |-> <<"!">>]}

EvalSets == UNION {[1..n -> ExamplePool] : n \in 0..MaxExamples}

DictAbsent == [num_examples |-> PyFloat(Rat(1, 1))]
DictWith(v) == [success_rate |-> v, num_examples |-> PyFloat(Rat(1, 1))]

\* What run_benchmark of a candidate other than the reference one may return.
ForeignMetrics ==
    {[mapping |-> FALSE, items |-> DictAbsent],
     [mapping |-> TRUE, items |-> DictAbsent],
     [mapping |-> TRUE, items |-> DictWith(PyFloat(Rat(1, 4)))],
     [mapping |-> TRUE, items |-> DictWith(PyFloat(Rat(3, 4)))],
     [mapping |-> TRUE, items |-> DictWith(PyInt(1))],
     [mapping |-> TRUE, items |-> DictWith(PyBool(TRUE))],
     [mapping |-> TRUE, items |-> DictWith(PyStr(<<" ", "0", ".", "5">>))],
     [mapping |-> TRUE, items |-> DictWith(PyStr(<<"5", "e", "1">>))],
     [mapping |-> TRUE, items |-> DictWith(PyStr(<<"N", "a", "N">>))],
     [mapping |-> TRUE, items |-> DictWith(PyStr(<<"a", "b", "c">>))],
     [mapping |-> TRUE, items |-> DictWith(PyNone)]}

NoMetrics == [mapping |-> FALSE, items |-> DictAbsent]

\* The text of a candidate file.  kind:
\*   "unresolvable"      no import spec or loader for the path
\*   "exec_fails"        reading or executing the file raises the exception
\*                       named by its field raises
\*   "no_run_benchmark"  loads, defines no run_benchmark
\*   "program"           the reference program with some AGENT_CONFIG, EVAL_SET
\*   "foreign"           defines a run_benchmark of its own
File(kind, raises, config, eval_set, metrics) ==
    [kind |-> kind, raises |-> raises, config |-> config, eval_set |-> eval_set,
     metrics |-> metrics]

\* What reading or executing a candidate file may raise: the path names no
\* file, the file does not compile, its top-level code raises.
ExecErrors == {"FileNotFoundError", "SyntaxError", "AttributeError", "ValueError"}

Files ==
    {File(k, "none", AGENT_CONFIG, <<>>, NoMetrics) :
        k \in {"unresolvable", "no_run_benchmark"}}
    \cup {File("exec_fails", e, AGENT_CONFIG, <<>>, NoMetrics) : e \in ExecErrors}
    \cup {File("program", "none", c, es, NoMetrics) :
             c \in {AGENT_CONFIG, ConfigPlannerOff}, es \in EvalSets}
    \cup {File("program", "none", c, es, NoMetrics) :
             c \in {ConfigNoPlannerKey, ConfigDefaultBudgets},
             es \in {e \in EvalSets : Len(e) <= 1}}
    \cup {File("foreign", "none", AGENT_CONFIG, <<>>, m) : m \in ForeignMetrics}

\* Two texts of one length: a candidate and what it is rewritten to.
Rewrites ==
    {File("foreign", "none", AGENT_CONFIG, <<>>,
          [mapping |-> TRUE, items |-> DictWith(PyFloat(Rat(n, 4)))]) : n \in {1, 3}}

\* The size of a text, as far as sizes are compared: the texts of Rewrites
\* are of one size, any other text is of a size of its own.
SizeOf(text) == IF text \in Rewrites THEN <<>> ELSE <<text>>

\* The location candidates are written to.
Paths == {"candidate.py"}

\* OPENAI_API_KEY in os.environ: not there, the empty string, or a key.
KeyValues == {"unset", "empty", "set"}

\* What load_dotenv() finds for OPENAI_API_KEY from a file's folder upward:
\* no .env file or no such line, a line with an empty value, or a key.
DotenvValues == {"none", "empty", "set"}

\* What evaluate finds at program_path: the location; the text of the file;
\* its stamp, the mtime (whole seconds) and size that the import system's
\* bytecode cache records for a source; dotenv, what load_dotenv() finds.
Source(text, path, mtime, dotenv) ==
    [kind |-> text.kind, raises |-> text.raises, config |-> text.config,
     eval_set |-> text.eval_set, metrics |-> text.metrics,
     path |-> path, stamp |-> [mtime |-> mtime, size |-> SizeOf(text)],
     dotenv |-> dotenv]

Text(path) == File(path.kind, path.raises, path.config, path.eval_set, path.metrics)

\* The candidates evaluate can be pointed at: every text, written in one
\* second; the rewritten texts also written in the next; the reference program
\* on short eval sets also with a .env file in reach.
Candidates ==
    {Source(f, p, 1, "none") : f \in Files, p \in Paths}
    \cup {Source(f, p, 2, "none") : f \in Rewrites, p \in Paths}
    \cup {Source(File("program", "none", AGENT_CONFIG, es, NoMetrics), p, 1, d) :
             es \in {e \in EvalSets : Len(e) <= 1}, p \in Paths,
             d \in DotenvValues \ {"none"}}

\* What the provider answers: message.content is None or a text.
NoContent == [some |-> FALSE, text |-> <<>>]

RawContents ==
    {NoContent,
     [some |-> TRUE, text |-> <<" ">>],
     [some |-> TRUE, text |-> <<" ", "A", "!">>]}

Err(kind, site) == [kind |-> kind, site |-> site]

\* ------------------------------------------------------------- state
VARIABLES
    pc,            \* where the evaluate call stands
    program_path,  \* evaluate's argument: the candidate file
    mod,           \* the module _load_program returned (<<>>: none)
    i,             \* run_benchmark: 1-based index of the example of the loop
    correct,       \* run_benchmark: the counter
    plan_text,     \* run_multi_agent: the plan
    ans,           \* run_benchmark: what run_multi_agent returned last
    metrics,       \* what run_benchmark returned (<<>>: nothing)
    result,        \* what evaluate returned (<<>>: nothing)
    error,         \* the exception evaluate raised (<<>>: none)
    trace,         \* the completion calls of this evaluate call, in order
    api_key,       \* OPENAI_API_KEY in os.environ, one of KeyValues
    key_at_start,  \* api_key as it was when the process started
    pycache,       \* the bytecode cache: per location, the stamp and the code
                   \* of the source last compiled there (<<>>: no entry)
    dont_write_bytecode,
                   \* sys.dont_write_bytecode, fixed for the process
    answer, expected_substring, norm_ans, norm_exp, verdict, npc
                   \* _is_correct on its own: arguments, locals, result, position

evalVars == <<pc, program_path, mod, i, correct, plan_text, ans, metrics, result,
              error, trace, api_key, key_at_start, pycache, dont_write_bytecode>>
normVars == <<answer, expected_substring, norm_ans, norm_exp, verdict, npc>>
vars == <<evalVars, normVars>>

EvalInit ==
    /\ pc = "idle"
    /\ program_path = Source(File("unresolvable", "none", AGENT_CONFIG, <<>>, NoMetrics),
                             "candidate.py", 1, "none")
    /\ mod = <<>>
    /\ i = 1
    /\ correct = 0
    /\ plan_text = <<>>
    /\ ans = <<>>
    /\ metrics = <<>>
    /\ result = <<>>
    /\ error = <<>>
    /\ trace = <<>>
    /\ api_key \in KeyValues
    /\ key_at_start = api_key
    /\ pycache = [p \in Paths |-> <<>>]
    /\ dont_write_bytecode \in BOOLEAN

Init ==
    /\ EvalInit
    /\ answer = <<>>
    /\ expected_substring = <<>>
    /\ norm_ans = <<>>
    /\ norm_exp = <<>>
    /\ verdict = FALSE
    /\ npc = "off"

\* ------------------------------------------------------ the evaluator
\* The file at the path can be read.
Exists(path) == ~(path.kind = "exec_fails" /\ path.raises = "FileNotFoundError")

\* The loader takes the cached bytecode for the source's: the location has a
\* cache entry and the entry's stamp is the stamp of the file.
CacheHit(path) ==
    /\ Exists(path)
    /\ pycache[path.path] # <<>>
    /\ pycache[path.path][1].stamp = path.stamp

\* load_dotenv() at the top of the reference program: a variable that is in
\* os.environ, be it empty, stays; else the value of the .env file is set.
load_dotenv(path) ==
    IF api_key = "unset" /\ path.dotenv # "none" THEN path.dotenv ELSE api_key

Failed(kind, site, environ, cache) ==
    [ok |-> FALSE, module |-> <<>>, err |-> Err(kind, site),
     environ |-> environ, pycache |-> cache]

\* _load_program: ImportError without a spec or loader; else exec_module,
\* which lets through whatever reading, compiling or executing raises.  The
\* code executed is the cached bytecode when its stamp is the file's, else the
\* compiled file, which is then cached unless dont_write_bytecode.  Executing
\* the reference program calls load_dotenv() and raises RuntimeError when
\* OPENAI_API_KEY is still not set.  The result: the module object, made anew,
\* and os.environ and the cache as the load leaves them.
_load_program(path) ==
    IF path.kind = "unresolvable"
    THEN Failed("ImportError", "_load_program", api_key, pycache)
    ELSE IF ~Exists(path)
    THEN Failed("FileNotFoundError", "exec_module", api_key, pycache)
    ELSE IF ~CacheHit(path) /\ path.kind = "exec_fails" /\ path.raises = "SyntaxError"
    THEN Failed("SyntaxError", "exec_module", api_key, pycache)
    ELSE LET code == IF CacheHit(path) THEN pycache[path.path][1].code ELSE Text(path)
             cache == IF CacheHit(path) \/ dont_write_bytecode
                      THEN pycache
                      ELSE [pycache EXCEPT ![path.path] =
                                <<[stamp |-> path.stamp, code |-> code]>>]
             environ == IF code.kind = "program" THEN load_dotenv(path) ELSE api_key
         IN  CASE code.kind = "exec_fails" ->
                     Failed(code.raises, "exec_module", environ, cache)
               [] code.kind = "program" /\ environ # "set" ->
                     Failed("RuntimeError", "exec_module", environ, cache)
               [] OTHER ->
                     [ok |-> TRUE, module |-> <<code>>, err |-> Err("none", "none"),
                      environ |-> environ, pycache |-> cache]

\* hasattr(mod, "run_benchmark")
HasRunBenchmark(m) == m.kind \in {"program", "foreign"}

\* raise AttributeError("Candidate program does not define run_benchmark(). ...")
ContractError == Err("AttributeError", "evaluate")

\* evaluate, up to the call of mod.run_benchmark()
Evaluate(path) ==
    /\ pc \in {"idle", "returned", "raised"}
    /\ program_path' = path
    /\ trace' = <<>>
    /\ metrics' = <<>>
    /\ result' = <<>>
    /\ LET loaded == _load_program(path)
       IN  /\ mod' = loaded.module
           /\ api_key' = loaded.environ
           /\ pycache' = loaded.pycache
           /\ IF ~loaded.ok
              THEN pc' = "raised" /\ error' = <<loaded.err>>
              ELSE IF ~HasRunBenchmark(loaded.module[1])
                   THEN pc' = "raised" /\ error' = <<ContractError>>
                   ELSE pc' = "run_benchmark" /\ error' = <<>>
    /\ UNCHANGED <<i, correct, plan_text, ans, key_at_start, dont_write_bytecode>>
    /\ UNCHANGED normVars

\* run_benchmark of a candidate that is not the reference program: it returns
\* some metrics object.
ForeignBenchmark ==
    /\ pc = "run_benchmark"
    /\ mod[1].kind = "foreign"
    /\ metrics' = <<mod[1].metrics>>
    /\ pc' = "metrics"
    /\ UNCHANGED <<program_path, mod, i, correct, plan_text, ans, result, error, trace,
                   api_key, key_at_start, pycache, dont_write_bytecode>>
    /\ UNCHANGED normVars

\* variant: score is left at 0.0
ScoreReportScoreUnset(success_rate) ==
    [score |-> Zero, combined_score |-> success_rate, success_rate |-> success_rate]

ScoreReport(success_rate) ==
    LET combined_score == success_rate
    IN  [score |-> combined_score,
         combined_score |-> combined_score,
         success_rate |-> success_rate]

\* metrics.get("success_rate", 0.0)
MetricsGet(m) == Get(m.items, "success_rate", PyFloat(Zero))

\* evaluate, from the return of run_benchmark on
EvaluateReturn ==
    /\ pc = "metrics"
    /\ IF ~metrics[1].mapping
       THEN /\ pc' = "raised"
            /\ error' = <<Err("AttributeError", "metrics.get")>>
            /\ result' = <<>>
       ELSE LET f == ToFloat(MetricsGet(metrics[1]))
            IN  IF f.ok
                THEN /\ pc' = "returned"
                     /\ result' = <<ScoreReport(f.val)>>
                     /\ error' = <<>>
                ELSE /\ pc' = "raised"
                     /\ error' = <<Err(f.err, "float")>>
                     /\ result' = <<>>
    /\ UNCHANGED <<program_path, mod, i, correct, plan_text, ans, metrics, trace,
                   api_key, key_at_start, pycache, dont_write_bytecode>>
    /\ UNCHANGED normVars

\* ------------------------------------------------------- the pipeline
EVAL_SET == mod[1].eval_set
Config == mod[1].config

\* _call_llm's return value:  (content or "").strip()
CallText(raw) == Strip(IF raw.some THEN raw.text ELSE <<>>)

\* One completion call of the trace; status is "pending" until the provider
\* answers ("ok", with its content and the text _call_llm returns) or the call
\* raises ("failed").
Call(stage, ex, system_prompt, user_content, max_tokens) ==
    [stage |-> stage, ex |-> ex, system_prompt |-> system_prompt,
     user_content |-> user_content, max_tokens |-> max_tokens,
     status |-> "pending", raw |-> NoContent, text |-> <<>>]

Settle(tr, status, raw, text) ==
    [tr EXCEPT ![Len(tr)].status = status, ![Len(tr)].raw = raw, ![Len(tr)].text = text]

\* variant:  "use_planner" in config
UsePlannerKeyPresent(config) == "use_planner" \in DOMAIN config

\* config.get("use_planner", False)
UsePlanner(config) == Get(config, "use_planner", FALSE)

PlannerCall(config, ex, question) ==
    LET planner_cfg == config.planner
    IN  Call("planner", ex, planner_cfg.system_prompt, QuestionPrefix \o question,
             Get(planner_cfg, "max_tokens", 128))

\* variant: the plan line is appended whether or not there is a plan
SolverInputAlwaysPlan(question, plan) ==
    (QuestionPrefix \o question) \o (PlanPrefix \o plan)

SolverInput(question, plan) ==
    (QuestionPrefix \o question) \o (IF plan # <<>> THEN PlanPrefix \o plan ELSE <<>>)

SolverCall(config, ex, question, plan) ==
    LET solver_cfg == config.solver
    IN  Call("solver", ex, solver_cfg.system_prompt, SolverInput(question, plan),
             Get(solver_cfg, "max_tokens", 64))

\* variant: floor division,  correct // len(EVAL_SET)
SuccessRateFloorDiv(count, n) == IF n # 0 THEN Rat(count \div n, 1) ELSE Zero

\* correct / len(EVAL_SET) if EVAL_SET else 0.0
SuccessRate(count, n) == IF n # 0 THEN Rat(count, n) ELSE Zero

\* run_benchmark of the reference program: correct = 0, the loop begins
BenchStart ==
    /\ pc = "run_benchmark"
    /\ mod[1].kind = "program"
    /\ correct' = 0
    /\ i' = 1
    /\ pc' = "loop"
    /\ UNCHANGED <<program_path, mod, plan_text, ans, metrics, result, error, trace,
                   api_key, key_at_start, pycache, dont_write_bytecode>>
    /\ UNCHANGED normVars

\* the loop takes the next example and calls run_multi_agent, which runs up
\* to its first completion call
NextExample ==
    /\ pc = "loop"
    /\ i <= Len(EVAL_SET)
    /\ plan_text' = <<>>
    /\ LET question == EVAL_SET[i].question
       IN  IF UsePlanner(Config)
           THEN /\ trace' = Append(trace, PlannerCall(Config, i, question))
                /\ pc' = "planner_call"
           ELSE /\ trace' = Append(trace, SolverCall(Config, i, question, <<>>))
                /\ pc' = "solver_call"
    /\ UNCHANGED <<program_path, mod, i, correct, ans, metrics, result, error, api_key, key_at_start, pycache, dont_write_bytecode>>
    /\ UNCHANGED normVars

\* the planner call returns; run_multi_agent goes on to the solver call
PlannerReturns(raw) ==
    /\ pc = "planner_call"
    /\ LET plan == CallText(raw)
           question == EVAL_SET[i].question
       IN  /\ plan_text' = plan
           /\ trace' = Append(Settle(trace, "ok", raw, plan),
                              SolverCall(Config, i, question, plan))
    /\ pc' = "solver_call"
    /\ UNCHANGED <<program_path, mod, i, correct, ans, metrics, result, error, api_key, key_at_start, pycache, dont_write_bytecode>>
    /\ UNCHANGED normVars

\* variant: an answer graded wrong is asked for once more
SolverReturnsRetry(raw) ==
    /\ pc = "solver_call"
    /\ LET answer_text == CallText(raw)
           good == _is_correct(answer_text, EVAL_SET[i].expected_substring)
           again == ~good /\ Cardinality({k \in 1..Len(trace) : trace[k].ex = i
                                             /\ trace[k].stage = "solver"}) < 2
       IN  /\ ans' = answer_text
           /\ correct' = IF good THEN correct + 1 ELSE correct
           /\ IF again
              THEN /\ trace' = Append(Settle(trace, "ok", raw, answer_text),
                                      SolverCall(Config, i, EVAL_SET[i].question,
                                                 plan_text))
                   /\ i' = i
                   /\ pc' = "solver_call"
              ELSE /\ trace' = Settle(trace, "ok", raw, answer_text)
                   /\ i' = i + 1
                   /\ pc' = "loop"
    /\ UNCHANGED <<program_path, mod, plan_text, metrics, result, error, api_key, key_at_start, pycache, dont_write_bytecode>>
    /\ UNCHANGED normVars

\* the solver call returns; run_multi_agent returns its text, run_benchmark
\* grades it and moves to the next example
SolverReturns(raw) ==
    /\ pc = "solver_call"
    /\ LET answer_text == CallText(raw)
       IN  /\ trace' = Settle(trace, "ok", raw, answer_text)
           /\ ans' = answer_text
           /\ correct' = IF _is_correct(answer_text, EVAL_SET[i].expected_substring)
                         THEN correct + 1 ELSE correct
    /\ i' = i + 1
    /\ pc' = "loop"
    /\ UNCHANGED <<program_path, mod, plan_text, metrics, result, error, api_key, key_at_start, pycache, dont_write_bytecode>>
    /\ UNCHANGED normVars

\* variant: run_benchmark catches the exception and leaves the loop with the
\* tally it has
CallFailsBreaksLoop ==
    /\ pc \in {"planner_call", "solver_call"}
    /\ trace' = Settle(trace, "failed", NoContent, <<>>)
    /\ pc' = "loop"
    /\ i' = Len(EVAL_SET) + 1
    /\ UNCHANGED <<program_path, mod, correct, plan_text, ans, metrics, result,
                   error, api_key, key_at_start, pycache, dont_write_bytecode>>
    /\ UNCHANGED normVars

\* the provider call raises: nothing catches it up to evaluate's caller; the
\* frames of run_multi_agent and run_benchmark are left, their locals gone
CallFails ==
    /\ pc \in {"planner_call", "solver_call"}
    /\ trace' = Settle(trace, "failed", NoContent, <<>>)
    /\ pc' = "raised"
    /\ error' = <<Err("APIError", "_call_llm")>>
    /\ i' = 1 /\ correct' = 0 /\ plan_text' = <<>> /\ ans' = <<>>
    /\ UNCHANGED <<program_path, mod, metrics, result,
                   api_key, key_at_start, pycache, dont_write_bytecode>>
    /\ UNCHANGED normVars

\* the loop is over: run_benchmark returns its dict, its locals are gone
BenchFinish ==
    /\ pc = "loop"
    /\ i > Len(EVAL_SET)
    /\ LET success_rate == SuccessRate(correct, Len(EVAL_SET))
       IN  metrics' = <<[mapping |-> TRUE,
                         items |-> [success_rate |-> PyFloat(success_rate),
                                    num_examples |->
                                        PyFloat(Rat(Len(EVAL_SET), 1))]]>>
    /\ pc' = "metrics"
    /\ i' = 1 /\ correct' = 0 /\ plan_text' = <<>> /\ ans' = <<>>
    /\ UNCHANGED <<program_path, mod, result, error, trace,
                   api_key, key_at_start, pycache, dont_write_bytecode>>
    /\ UNCHANGED normVars

Next ==
    \/ \E path \in Candidates : Evaluate(path)
    \/ ForeignBenchmark
    \/ BenchStart
    \/ NextExample
    \/ \E raw \in RawContents : PlannerReturns(raw)
    \/ \E raw \in RawContents : SolverReturns(raw)
    \/ CallFails
    \/ BenchFinish
    \/ EvaluateReturn

Spec == Init /\ [][Next]_vars

\* --------------------------------------------- _is_correct on its own
\* (the vertical tab is written raw)
NormAlphabet == {"a", "A", "7", " ", "", "!", "U+0130"}
Texts == UNION {[1..n -> NormAlphabet] : n \in 0..MaxTextLen}

NormInit ==
    /\ EvalInit
    /\ answer \in Texts
    /\ expected_substring \in Texts
    /\ norm_ans = <<>>
    /\ norm_exp = <<>>
    /\ verdict = FALSE
    /\ npc = "called"

NormalizeBoth ==
    /\ npc = "called"
    /\ norm_ans' = _normalize(answer)
    /\ norm_exp' = _normalize(expected_substring)
    /\ npc' = "normalized"
    /\ UNCHANGED <<answer, expected_substring, verdict>>
    /\ UNCHANGED evalVars

Decide ==
    /\ npc = "normalized"
    /\ verdict' = Contains(norm_ans, norm_exp)
    /\ npc' = "returned"
    /\ UNCHANGED <<answer, expected_substring, norm_ans, norm_exp>>
    /\ UNCHANGED evalVars

NormNext == NormalizeBoth \/ Decide

NormSpec == NormInit /\ [][NormNext]_vars

\* ------------------------------------------------------------- claims
IsProgram == mod # <<>> /\ mod[1].kind = "program"

Calls(stage, ex) ==
    {k \in 1..Len(trace) : trace[k].stage = stage /\ trace[k].ex = ex}

\* the answered examples whose answer contains the expected substring
Matched ==
    {k \in 1..Len(trace) :
        /\ trace[k].stage = "solver"
        /\ trace[k].status = "ok"
        /\ _is_correct(trace[k].text, EVAL_SET[trace[k].ex].expected_substring)}

\* the float f is the fraction a / b
IsFraction(f, a, b) ==
    /\ f.den > 0
    /\ f.num * b * Pow10(IF f.exp > 0 THEN f.exp ELSE 0)
          = a * f.den * Pow10(IF f.exp < 0 THEN 0 - f.exp ELSE 0)

\* the float f lies in [0, 1]
InUnitInterval(f) ==
    /\ f.den > 0
    /\ f.num >= 0
    /\ f.num * Pow10(IF f.exp > 0 THEN f.exp ELSE 0)
          <= f.den * Pow10(IF f.exp < 0 THEN 0 - f.exp ELSE 0)

\* C1: when run_benchmark returns, success_rate is correct_count / num_examples
\* for a non-empty eval set (correct_count: the examples whose answer matched)
\* and 0.0 for an empty one; it lies in [0,1]; num_examples is the size of the
\* eval set.
C1_SuccessRate ==
    (IsProgram /\ metrics # <<>>) =>
        LET m == metrics[1].items
            r == m.success_rate
            n == Len(EVAL_SET)
        IN  /\ metrics[1].mapping
            /\ r.t = "float"
            /\ (n > 0 => IsFraction(r.f, Cardinality(Matched), n))
            /\ (n = 0 => IsFraction(r.f, 0, 1))
            /\ InUnitInterval(r.f)
            /\ m.num_examples.t = "float"
            /\ IsFraction(m.num_examples.f, n, 1)

C1_Witness ==
    /\ IsProgram /\ metrics # <<>>
    /\ Len(EVAL_SET) = 2
    /\ Cardinality(Matched) = 1
    /\ IsFraction(metrics[1].items.success_rate.f, 1, 2)

\* C2: a completion call that raises is the last call of its run, and the
\* exception reaches evaluate's caller: the run has raised with that exception,
\* run_benchmark has returned no metrics and evaluate no report; metrics or a
\* report exist only if every completion call of the run succeeded.
C2_FailureAborts ==
    /\ \A k \in 1..Len(trace) :
          trace[k].status = "failed" =>
              /\ k = Len(trace)
              /\ pc = "raised"
              /\ error = <<Err("APIError", "_call_llm")>>
              /\ metrics = <<>>
              /\ result = <<>>
    /\ (metrics # <<>> \/ result # <<>>) =>
          \A k \in 1..Len(trace) : trace[k].status = "ok"

C2_Witness ==
    /\ pc = "raised"
    /\ Len(trace) >= 2
    /\ trace[Len(trace)].status = "failed"
    /\ trace[Len(trace)].stage = "planner"
    /\ Matched # {}
    /\ trace[Len(trace)].ex = Len(EVAL_SET)
    /\ metrics = <<>> /\ result = <<>>

\* the benchmark run of the reference program is over: run_benchmark has
\* returned or a completion call has raised
RunOver == IsProgram /\ pc \in {"metrics", "returned", "raised"}

\* C3 as stated: in every benchmark run, the examples are taken in eval-set
\* order, the planner call of an example is directly followed by its solver
\* call, and each example of the eval set gets exactly one solver call.
C3_OneSolverCallEach ==
    RunOver =>
        /\ \A k \in 1..(Len(trace) - 1) :
              /\ trace[k].stage = "planner" =>
                    trace[k + 1].stage = "solver" /\ trace[k + 1].ex = trace[k].ex
              /\ trace[k].stage = "solver" => trace[k + 1].ex = trace[k].ex + 1
        /\ \A e \in 1..Len(EVAL_SET) : Cardinality(Calls("solver", e)) = 1

\* C3 amended: the completion calls of a run are strictly sequential: a call
\* starts only after every earlier call has returned; the examples are taken
\* in eval-set order, one at a time; the planner call of an example is
\* directly followed by its solver call; every example the loop is done with
\* has had exactly one solver call, so every example of a run that completes;
\* in a run a failed call aborts, the examples before the failing one have had
\* exactly one solver call, the failing one at most one, the later ones no
\* call at all.
C3_Sequential ==
    IsProgram =>
        /\ \A k \in 1..(Len(trace) - 1) :
              /\ trace[k].status = "ok"
              /\ trace[k].stage = "planner" =>
                    trace[k + 1].stage = "solver" /\ trace[k + 1].ex = trace[k].ex
              /\ trace[k].stage = "solver" => trace[k + 1].ex = trace[k].ex + 1
        /\ trace # <<>> => trace[1].ex = 1
        /\ \A k \in 1..Len(trace) :
              /\ trace[k].ex \in 1..Len(EVAL_SET)
              /\ SubSeq(trace[k].user_content, 1,
                        Len(QuestionPrefix) + Len(EVAL_SET[trace[k].ex].question))
                    = QuestionPrefix \o EVAL_SET[trace[k].ex].question
        /\ \A e \in 1..Len(EVAL_SET) :
              /\ Cardinality(Calls("planner", e)) <= 1
              /\ Cardinality(Calls("solver", e)) <= 1
              /\ (pc = "loop" /\ e < i) => Cardinality(Calls("solver", e)) = 1
              /\ (pc \in {"metrics", "returned"}) =>
                    Cardinality(Calls("solver", e)) = 1
              /\ (pc \in {"run_benchmark", "loop"} /\ e >= i) =>
                    Calls("solver", e) = {} /\ Calls("planner", e) = {}
              /\ pc = "raised" =>
                    /\ trace # <<>> /\ trace[Len(trace)].status = "failed"
                    /\ e < trace[Len(trace)].ex => Cardinality(Calls("solver", e)) = 1
                    /\ e > trace[Len(trace)].ex =>
                          Calls("solver", e) = {} /\ Calls("planner", e) = {}

C3_Witness ==
    /\ IsProgram
    /\ pc = "raised"
    /\ Len(EVAL_SET) = 2
    /\ EVAL_SET[1] # EVAL_SET[2]
    /\ Len(trace) = 3
    /\ trace[1].stage = "planner" /\ trace[2].stage = "solver"
    /\ trace[3].stage = "planner" /\ trace[3].ex = 2 /\ trace[3].status = "failed"
    /\ Calls("solver", 2) = {}

ConfigOff == "use_planner" \notin DOMAIN Config \/ Config.use_planner = FALSE

\* C4: with use_planner false (or absent, which config.get reads as false)
\* every completion call is a solver call, one per question, with the solver's
\* prompt and budget and exactly "Question: " + question as its content, and
\* the answer run_multi_agent returns is that call's text; nothing of the
\* planner's configuration enters.
C4_PlannerOff ==
    (IsProgram /\ ConfigOff) =>
        /\ \A k \in 1..Len(trace) :
              /\ trace[k].stage = "solver"
              /\ trace[k].ex = k
              /\ trace[k].user_content = QuestionPrefix \o EVAL_SET[k].question
              /\ trace[k].system_prompt = Config.solver.system_prompt
              /\ trace[k].max_tokens = Config.solver.max_tokens
        /\ (pc = "loop" /\ i > 1) =>
              /\ Len(trace) = i - 1
              /\ ans = Strip(IF trace[i - 1].raw.some THEN trace[i - 1].raw.text ELSE <<>>)

C4_Witness ==
    /\ IsProgram
    /\ "use_planner" \in DOMAIN Config /\ Config.use_planner = FALSE
    /\ pc = "loop"
    /\ Len(trace) = 2
    /\ ans # <<>>

\* C5: a loaded candidate without run_benchmark makes evaluate raise the
\* contract error, of a kind no load failure (no spec or loader; reading,
\* compiling or executing the file raises) has; in both cases no benchmark
\* runs, no completion call is made, no report is returned.
C5_ContractError ==
    /\ (mod # <<>> /\ mod[1].kind = "no_run_benchmark") =>
          /\ pc = "raised"
          /\ error # <<>> /\ error[1].kind = "AttributeError"
          /\ metrics = <<>> /\ result = <<>> /\ trace = <<>>
    /\ (pc # "idle" /\ mod = <<>>) =>
          /\ pc = "raised"
          /\ error # <<>> /\ error[1].kind # "AttributeError"
          /\ metrics = <<>> /\ result = <<>> /\ trace = <<>>

Finished == pc \in {"returned", "raised"} /\ metrics # <<>>
HasEntry == "success_rate" \in DOMAIN metrics[1].items
Entry == metrics[1].items.success_rate
HalfText == <<" ", "0", ".", "5">>

AcceptedTexts == {HalfText, <<"5", "e", "1">>, <<"N", "a", "N">>}

\* C6 as stated: once run_benchmark has returned, evaluate returns a report,
\* whose success_rate is the entry if it is a number and 0.0 if the entry is
\* absent or not a number.
C6_AlwaysReport ==
    Finished =>
        /\ pc = "returned"
        /\ result # <<>>
        /\ metrics[1].mapping =>
              /\ (HasEntry /\ Entry.t = "float") => result[1].success_rate = Entry.f
              /\ (HasEntry /\ Entry.t \in {"int", "bool"}) =>
                    IsFraction(result[1].success_rate, Entry.n, 1)
              /\ (~HasEntry \/ Entry.t = "NoneType"
                     \/ (Entry.t = "str" /\ Entry.s \notin AcceptedTexts)) =>
                    result[1].success_rate = Zero

\* C6 amended: once run_benchmark has returned, evaluate converts
\* metrics.get("success_rate", 0.0) with float(): what is returned has no get
\* (it is no mapping): evaluate raises AttributeError; an absent entry gives a
\* report of 0.0; a number, or a text float() reads as one, gives a report of
\* that number; a text float() rejects makes evaluate raise ValueError and
\* None TypeError.  Whenever evaluate raises, no report is returned.
C6_DefaultOnlyIfAbsent ==
    Finished =>
        IF ~metrics[1].mapping
        THEN /\ pc = "raised" /\ result = <<>>
             /\ error = <<Err("AttributeError", "metrics.get")>>
        ELSE IF ~HasEntry
        THEN pc = "returned" /\ result # <<>> /\ result[1].success_rate = Zero
        ELSE CASE Entry.t = "float" ->
                    /\ pc = "returned" /\ result # <<>>
                    /\ result[1].success_rate = Entry.f
               [] Entry.t \in {"int", "bool"} ->
                    /\ pc = "returned" /\ result # <<>>
                    /\ IsFraction(result[1].success_rate, Entry.n, 1)
               [] Entry.t = "str" /\ Entry.s = HalfText ->
                    /\ pc = "returned" /\ result # <<>>
                    /\ IsFraction(result[1].success_rate, 1, 2)
               [] Entry.t = "str" /\ Entry.s = <<"5", "e", "1">> ->
                    /\ pc = "returned" /\ result # <<>>
                    /\ IsFraction(result[1].success_rate, 50, 1)
               [] Entry.t = "str" /\ Entry.s = <<"N", "a", "N">> ->
                    /\ pc = "returned" /\ result # <<>>
                    /\ result[1].success_rate.den = 0
                    /\ result[1].success_rate.num = 0
               [] Entry.t = "str" /\ Entry.s \notin AcceptedTexts ->
                    /\ pc = "raised" /\ result = <<>>
                    /\ error = <<Err("ValueError", "float")>>
               [] OTHER ->
                    /\ pc = "raised" /\ result = <<>>
                    /\ error = <<Err("TypeError", "float")>>

C6_Witness ==
    /\ Finished /\ metrics[1].mapping /\ HasEntry
    /\ Entry.t = "str" /\ Entry.s = <<"a", "b", "c">>
    /\ pc = "raised"

\* What an evaluate call of candidate c whose completion calls are tr comes to
\* when no evaluate call came before it: computed from c, tr and the
\* environment the process started with.
ExpectedOutcome(c, tr) ==
    CASE c.kind = "unresolvable" ->
            [report |-> <<>>, error |-> <<Err("ImportError", "_load_program")>>]
      [] c.kind = "exec_fails" ->
            [report |-> <<>>, error |-> <<Err(c.raises, "exec_module")>>]
      [] c.kind = "program"
           /\ ~(key_at_start = "set" \/ (key_at_start = "unset" /\ c.dotenv = "set")) ->
            [report |-> <<>>, error |-> <<Err("RuntimeError", "exec_module")>>]
      [] c.kind = "no_run_benchmark" ->
            [report |-> <<>>, error |-> <<Err("AttributeError", "evaluate")>>]
      [] c.kind = "foreign" ->
            IF ~c.metrics.mapping
            THEN [report |-> <<>>, error |-> <<Err("AttributeError", "metrics.get")>>]
            ELSE LET f == ToFloat(Get(c.metrics.items, "success_rate", PyFloat(Zero)))
                 IN  IF f.ok
                     THEN [report |-> <<[score |-> f.val, combined_score |-> f.val,
                                         success_rate |-> f.val]>>,
                           error |-> <<>>]
                     ELSE [report |-> <<>>, error |-> <<Err(f.err, "float")>>]
      [] OTHER ->
            IF \E k \in 1..Len(tr) : tr[k].status = "failed"
            THEN [report |-> <<>>, error |-> <<Err("APIError", "_call_llm")>>]
            ELSE LET n == Len(c.eval_set)
                     hits == Cardinality(
                         {k \in 1..Len(tr) :
                             /\ tr[k].stage = "solver"
                             /\ _is_correct(tr[k].text,
                                            c.eval_set[tr[k].ex].expected_substring)})
                     rate == IF n = 0 THEN Zero ELSE Rat(hits, n)
                 IN  [report |-> <<[score |-> rate, combined_score |-> rate,
                                    success_rate |-> rate]>>,
                      error |-> <<>>]

\* C7: the outcome of an evaluate call, report or error, is the one it has
\* as the first call of the process, given the model outputs of this call,
\* whatever calls came before; the module it runs is made from its own
\* candidate, with that candidate's configuration and eval set.
C7_NoLeak ==
    /\ mod # <<>> => mod[1] = Text(program_path)
    /\ pc \in {"returned", "raised"} =>
          /\ result = ExpectedOutcome(program_path, trace).report
          /\ error = ExpectedOutcome(program_path, trace).error

WellFormed ==
    /\ metrics # <<>>
    /\ metrics[1].mapping
    /\ HasEntry
    /\ Entry.t = "float"
    /\ InUnitInterval(Entry.f)

\* C8: every report evaluate returns for a well-formed candidate has
\* score = combined_score = success_rate, the success_rate its run_benchmark
\* produced.
C8_ScoreReport ==
    (pc = "returned" /\ WellFormed) =>
        /\ result # <<>>
        /\ result[1].score = result[1].combined_score
        /\ result[1].combined_score = result[1].success_rate
        /\ result[1].success_rate = Entry.f

C8_Witness ==
    /\ pc = "returned"
    /\ WellFormed
    /\ IsProgram
    /\ IsFraction(result[1].score, 1, 2)

\* the plan as characterised without strip(): empty when the provider's
\* content is missing or all whitespace
BlankContent(raw) ==
    ~raw.some \/ \A j \in 1..Len(raw.text) : IsSpace(raw.text[j])

\* C10: the solver's content is "Question: " + question, followed by
\* "\nPlan: " + plan exactly when the plan is not empty; a planner whose
\* output is missing or blank leaves the content as with the planner off; the
\* answer run_multi_agent returns is the solver call's result.
C10_SolverInput ==
    IsProgram =>
        /\ \A k \in 1..Len(trace) :
              trace[k].stage = "solver" =>
                  LET q == QuestionPrefix \o EVAL_SET[trace[k].ex].question
                      planned == k > 1 /\ trace[k - 1].stage = "planner"
                  IN  IF planned /\ ~BlankContent(trace[k - 1].raw)
                      THEN /\ trace[k - 1].text # <<>>
                           /\ trace[k].user_content
                                 = q \o PlanPrefix \o trace[k - 1].text
                      ELSE trace[k].user_content = q
        /\ (pc = "loop" /\ i > 1) =>
              /\ trace[Len(trace)].stage = "solver"
              /\ ans = trace[Len(trace)].text

C10_Witness ==
    /\ IsProgram
    /\ Len(trace) = 2
    /\ trace[1].stage = "planner"
    /\ trace[1].status = "ok"
    /\ trace[1].raw.some /\ trace[1].raw.text # <<>>
    /\ trace[1].text = <<>>
    /\ trace[2].status = "ok"
    /\ pc = "loop"

\* a text of alphanumeric and whitespace characters only, none upper case
Clean(text) ==
    \A k \in 1..Len(text) :
        (IsAlnum(text[k]) \/ IsSpace(text[k])) /\ text[k] \notin UpperChars

\* C9: matches(answer, expected_substring) is true iff the normalized
\* expected substring occurs contiguously in the normalized answer; a
\* normalized text holds only alphanumeric and whitespace characters, none of
\* them upper case, in the order of the input; normalizing it again changes
\* nothing.
C9_NormalizeContract ==
    npc = "returned" =>
        /\ verdict = (\E a \in 0..Len(norm_ans) :
                        /\ a + Len(norm_exp) <= Len(norm_ans)
                        /\ \A j \in 1..Len(norm_exp) : norm_ans[a + j] = norm_exp[j])
        /\ Clean(norm_ans) /\ Clean(norm_exp)
        /\ _normalize(norm_ans) = norm_ans
        /\ _normalize(norm_exp) = norm_exp
====
